---- MODULE Spec2Model ----
(***************************************************************************)
(* Model of DiffusePosterior (posterior_inference_diffuse.py): the         *)
(* posterior integrand, the peak-relative resampler _get_trapz_f_samples   *)
(* and the two-pass integrator _get_posterior_val.                         *)
(*                                                                         *)
(* Number representation.                                                  *)
(*  - An abundance is a floating-point number near a point f0 * r^e of a   *)
(*    geometric ladder (r > 1).  It is stored as [e, id]: e is the integer *)
(*    exponent of the ladder point and id names the computation that       *)
(*    produced the float.  id = Exact is a float handed to the code        *)
(*    (f_min, f_max, an element of a given fs); any other id is a value of *)
(*    10**y, which the math library rounds: the float is within a few ulps *)
(*    of f0 * r^e, and the sign and size of the error differ from point to *)
(*    point.  Abundances that are equal records come from the same         *)
(*    computation, hence are the same float; abundances with different e   *)
(*    are ordered as their exponents (ladder points lie far more than a    *)
(*    few ulps apart); different abundances with the same e may differ in  *)
(*    the last bits, in either direction.  Where the code observes the     *)
(*    error (a prior or a fit window that ends exactly at e), the sign of  *)
(*    the error is chosen then, once for each abundance, and kept in rnd.  *)
(*  - np.geomspace(a, b, n) is 10**np.linspace(log10 a, log10 b, n).       *)
(*    np.linspace computes y[k] = start + k * step, but when the step of   *)
(*    ANY column is zero it computes every column as                       *)
(*    start + (k / div) * delta, which rounds differently.  numpy >= 1.20  *)
(*    then overwrites result[0] and result[-1] by a and b; older numpy     *)
(*    leaves them as 10**log10(a) and 10**log10(b).  The source pins no    *)
(*    numpy version: exact_ends is TRUE on the first kind of build.        *)
(*    Abundances are positive, so the ValueError of np.geomspace for a     *)
(*    zero end point cannot occur.                                         *)
(*  - Integrand values are non-negative integers.  Logarithms are taken in *)
(*    units of ln 2 on zero and powers of two, where log and exp are       *)
(*    exact; log(0) is the extended value NegInf.                          *)
(*  - frac is the decimal mant * 10^(-exp10); sign(frac*max - v) is        *)
(*    computed exactly as sign(mant*max - v*10^exp10).                     *)
(*  - Array indices are Python indices (0-based, negative = from the end). *)
(***************************************************************************)
EXTENDS Integers, Naturals, Sequences, FiniteSets, TLC

\* ------------------------------------------------------------------ bounds
MaxN == 4          \* longest coarse grid given to the resampler
MaxVal == 2        \* largest integrand value in a resampler input column
MaxCount == 4      \* largest n_low / n_high given to the resampler

\* ------------------------------------------------------- numpy primitives
\* np.sign
Sign(x) == IF x > 0 THEN 1 ELSE IF x < 0 THEN -1 ELSE 0

\* x[idx] for a Python index idx (negative counts from the end)
PyIndex(x, idx) == x[IF idx < 0 THEN Len(x) + idx + 1 ELSE idx + 1]

\* 1-based index of the first maximum of x[1..n]
RECURSIVE FirstMaxUpTo(_, _)
FirstMaxUpTo(x, n) ==
    IF n = 1 THEN 1
    ELSE LET b == FirstMaxUpTo(x, n - 1)
         IN IF x[n] > x[b] THEN n ELSE b

\* np.argmax of a 1-D integer array: 0-based index of the first maximum
ArgMax(x) == FirstMaxUpTo(x, Len(x)) - 1

\* np.argmax of a 1-D boolean array: index of the first True, 0 if none
ArgMaxBool(b) == ArgMax([k \in 1..Len(b) |-> IF b[k] THEN 1 ELSE 0])

\* column j of a matrix stored as a sequence of rows
Column(mat, j) == [i \in 1..Len(mat) |-> mat[i][j]]

\* number of columns of a matrix
Width(mat) == Len(mat[1])

\* numpy >= 1.20: np.geomspace ends with result[0] = start, result[-1] = stop
VARIABLE exact_ends

\* ---------------------------------------------------------- np.geomspace
\* id of a float handed to the code
Exact == <<>>

\* the float of exponent u handed to the code
Given(u) == [e |-> u, id |-> Exact]

\* 10**np.log10(a), as rounded
PowLog(a) == [e |-> a.e, id |-> <<a>>]

\* an end point of np.geomspace: start or stop itself, or 10**log10 of it
EndPoint(a) == IF exact_ends THEN a ELSE PowLog(a)

\* exact exponent of point k (1-based) of linspace(log10 a, log10 b, n)
LinPoint(a, b, n, k) ==
    IF n = 1 THEN a.e ELSE a.e + ((k - 1) * (b.e - a.e)) \div (n - 1)

\* d is a power of two
RECURSIVE IsPowerOfTwo(_)
IsPowerOfTwo(d) == d = 1 \/ (d > 1 /\ d % 2 = 0 /\ IsPowerOfTwo(d \div 2))

\* point k (1-based) of one column of np.geomspace(a, b, n);
\* any_step_zero: some column of the call has start = stop, so np.linspace
\* computes y[k] = start + (k / div) * delta instead of start + k * step.
\* With start = stop every y[k] is log10(start) itself; when div = n - 1 is
\* a power of two both formulas round alike.
GeomPoint(a, b, n, k, any_step_zero) ==
    IF k = 1 THEN EndPoint(a)
    ELSE IF k = n THEN EndPoint(b)
    ELSE IF a = b THEN PowLog(a)
    ELSE [e |-> LinPoint(a, b, n, k),
          id |-> <<a, b, n, k, any_step_zero /\ ~IsPowerOfTwo(n - 1)>>]

\* np.geomspace(a, b, n) on scalars: n points, endpoints included
GeomSpace(a, b, n) == [k \in 1..n |-> GeomPoint(a, b, n, k, a = b)]

\* ------------------------------------------------- _get_trapz_f_samples
\* integrand_vals.max(axis=0)[j]
IntegrandMax(vals, j) ==
    LET col == Column(vals, j)
    IN col[FirstMaxUpTo(col, Len(col))]

\* sign(a - b * 10^e) for a, b >= 0, by long division so that no product
\* leaves the integer range
RECURSIVE SignScaled(_, _, _)
SignScaled(a, b, e) ==
    IF e = 0 \/ b = 0 THEN Sign(a - b)
    ELSE IF a < b THEN -1
    ELSE LET s == SignScaled(a \div 10, b, e - 1)
         IN IF s # 0 THEN s ELSE Sign(a % 10)

\* np.sign(min_sample_val - integrand_vals)[i][j], min_sample_val = frac*max
SignBelow(mx, v, frac) == SignScaled(frac.mant * mx, v, frac.exp10)

\* d[:, j]: one entry per adjacent pair of grid points
DCol(vals, frac, j) ==
    LET mx == IntegrandMax(vals, j)
        sg == [i \in 1..Len(vals) |-> SignBelow(mx, vals[i][j], frac)]
    IN [i \in 1..(Len(vals) - 1) |-> sg[i] - sg[i + 1]]

\* integrand_vals.argmax(axis=0)[j]
IdxPeak(vals, j) == ArgMax(Column(vals, j))

\* np.argmax(d > 0, axis=0)[j] with the grid index one step to the right
IdxLowRight(vals, frac, j) ==
    LET d == DCol(vals, frac, j)
        k == ArgMaxBool([i \in 1..Len(d) |-> d[i] > 0])
    IN IF d[k + 1] > 0 THEN k + 1 ELSE k

\* np.argmax(d > 0, axis=0)[j]
IdxLow(vals, frac, j) ==
    LET d == DCol(vals, frac, j)
    IN ArgMaxBool([i \in 1..Len(d) |-> d[i] > 0])

\* idx_high without the rewrite of index 0
IdxHighRaw(vals, frac, j) ==
    LET d == DCol(vals, frac, j)
    IN ArgMaxBool([i \in 1..Len(d) |-> d[i] < 0])

\* idx_high = np.argmax(d < 0, axis=0); idx_high[idx_high == 0] = -1
IdxHigh(vals, frac, j) ==
    LET d == DCol(vals, frac, j)
        k == ArgMaxBool([i \in 1..Len(d) |-> d[i] < 0])
    IN IF k = 0 THEN -1 ELSE k

\* np.geomspace(a, b, n) on arrays a, b of shape [M]: shape [n, M]
GeomSpaceCols(a, b, n) ==
    LET any_step_zero == \E j \in 1..Len(a) : a[j] = b[j]
    IN [k \in 1..n |->
           [j \in 1..Len(a) |-> GeomPoint(a[j], b[j], n, k, any_step_zero)]]

\* the refined grid with the duplicated peak point dropped
RefinedDedup(f_low, f_peak, f_high, n_low, n_high) ==
    GeomSpaceCols(f_low, f_peak, n_low) \o
        Tail(GeomSpaceCols(f_peak, f_high, n_high))

\* np.concatenate([np.geomspace(f_low, f_peak, n_low),
\*                 np.geomspace(f_peak, f_high, n_high)]): shape [n_low+n_high, M]
Refined(f_low, f_peak, f_high, n_low, n_high) ==
    GeomSpaceCols(f_low, f_peak, n_low) \o GeomSpaceCols(f_peak, f_high, n_high)

\* _get_trapz_f_samples(fs, integrand_vals, frac, n_low, n_high); the record
\* keeps the locals next to the returned grid
get_trapz_f_samples(fs, vals, frac, n_low, n_high) ==
    LET M == Width(vals)
        f_peak == [j \in 1..M |-> PyIndex(fs, IdxPeak(vals, j))]
        f_low == [j \in 1..M |-> PyIndex(fs, IdxLow(vals, frac, j))]
        idx_high == [j \in 1..M |-> IdxHigh(vals, frac, j)]
        f_high == [j \in 1..M |-> PyIndex(fs, idx_high[j])]
    IN [f_peak |-> f_peak, f_low |-> f_low, idx_high |-> idx_high,
        f_high |-> f_high,
        grid |-> Refined(f_low, f_peak, f_high, n_low, n_high)]

\* ------------------------------------------------------------ constants
N_COARSE == 20     \* points of the coarse grid built by _get_posterior_val
N_LOW == 50        \* n_low passed by _get_posterior_val
N_HIGH == 150      \* n_high passed by _get_posterior_val

\* frac=1e-10, the default of _get_trapz_f_samples
DefaultFrac == [mant |-> 1, exp10 |-> 10]

\* exponent of f_min (the ladder starts at f_min)
F_MIN == 0

\* exponent of f_max: the coarse grid and both refined halves between any
\* two coarse points fall on integer exponents
F_MAX == (N_COARSE - 1) * (N_LOW - 1) * (N_HIGH - 1)

\* exponent distance of two neighbouring coarse grid points
CoarseStep == (F_MAX - F_MIN) \div (N_COARSE - 1)

\* ------------------------------------------------------------ state
VARIABLES
    \* one call of _get_trapz_f_samples
    fs, integrand_vals, frac, n_low, n_high, pc, ret,
    \* collaborators of the integrand: self.p_sv, self.p_f, phi_ex
    p_sv, p_f, fit,
    \* one call of integrand on scalars
    arg_f, arg_sv, ipc, ival,
    \* one call of _get_posterior_val
    sv, m_dm, hpc, probe, elem, h_fs, h_vals, h_ret, passes, trapz_calls, out,
    \* the rounding errors observed so far: sign of (float - f0 * r^e) for
    \* the abundances that were compared with f0 * r^e
    rnd

resVars == <<fs, integrand_vals, frac, n_low, n_high, pc, ret>>
extVars == <<p_sv, p_f, fit>>
intVars == <<arg_f, arg_sv, ipc, ival>>
postVars == <<sv, m_dm, hpc, probe, elem, h_fs, h_vals, h_ret, passes,
              trapz_calls, out>>
vars == <<resVars, extVars, intVars, postVars, rnd, exact_ends>>

\* ------------------------------------------------------------ integrand
\* extended reals of the log domain
NegInf == [tag |-> "ninf", v |-> 0]
Raised == [tag |-> "raise", v |-> 0]
Fin(x) == [tag |-> "fin", v |-> x]

RECURSIVE Log2(_)
Log2(x) == IF x <= 1 THEN 0 ELSE 1 + Log2(x \div 2)

RECURSIVE Pow2(_)
Pow2(k) == IF k <= 0 THEN 1 ELSE 2 * Pow2(k - 1)

\* a logarithm that raises on 0 (math.log) instead of returning -inf
LogRaising(x) == IF x = 0 THEN Raised ELSE Fin(Log2(x))

\* np.log: log(0) is -inf (a warning, not an exception)
NpLog(x) == IF x = 0 THEN NegInf ELSE Fin(Log2(x))

\* log_prob += y for a finite y: -inf stays -inf
AddFinite(lp, y) == IF lp.tag = "fin" THEN Fin(lp.v + y) ELSE lp

\* np.exp: exp(-inf) is 0
NpExp(lp) ==
    IF lp.tag = "fin" THEN [tag |-> "value", v |-> Pow2(lp.v)]
    ELSE IF lp.tag = "ninf" THEN [tag |-> "value", v |-> 0]
    ELSE [tag |-> "error", v |-> 0]

\* self.p_sv(sv): a table over the cross sections
P_sv(x) == p_sv[x]

\* sign of f - f0 * r^u for an abundance f and a ladder exponent u, where
\* o gives the sign of the rounding error of the rounded abundances
Cmp(o, f, u) ==
    IF f.e # u THEN Sign(f.e - u)
    ELSE IF f.id = Exact THEN 0
    ELSE o[f]

\* self.p_f(f): a top-hat density on [f0 * r^lo, f0 * r^hi]
P_f(o, f) ==
    IF Cmp(o, f, p_f.lo) >= 0 /\ Cmp(o, f, p_f.hi) <= 0 THEN p_f.val ELSE 0

\* phi_ex(e_egb, m_dm, sv, self.m_pbh, f, self.fs) / err_high_egb: the
\* residual per energy bin in units of the bin's uncertainty; zero inside
\* the fit window of the cross section
PhiOverErr(o, f, x, m) ==
    IF Cmp(o, f, fit[x].lo) >= 0 /\ Cmp(o, f, fit[x].hi) <= 0
    THEN <<0, 0>> ELSE fit[x].off

\* np.log(2 * np.pi * err_high_egb**2) per energy bin
LogTwoPiErrSq == <<-4, -4>>

RECURSIVE SumSeq(_)
SumSeq(x) == IF x = <<>> THEN 0 ELSE Head(x) + SumSeq(Tail(x))

\* -0.5 * np.sum((phi_dms / err_high_egb)**2 + np.log(2*np.pi*err_high_egb**2))
GaussLogLike(o, f, x, m) ==
    LET z == PhiOverErr(o, f, x, m)
        s == SumSeq([i \in 1..Len(z) |-> z[i] * z[i] + LogTwoPiErrSq[i]])
    IN (0 - s) \div 2

\* helper(f, sv, m_dm) of integrand: value or error outcome
IntegrandOutcome(o, f, x, m) ==
    NpExp(AddFinite(NpLog(P_sv(x) * P_f(o, f)), GaussLogLike(o, f, x, m)))

\* integrand(f, sv, m_dm) on scalars
Integrand(o, f, x, m) == IntegrandOutcome(o, f, x, m).v

\* integrand(f_mg, sv_mg, m_dm) on the mesh of one cross section: [n, 1]
IntegrandMesh(o, f_mg, x, m) ==
    [k \in 1..Len(f_mg) |-> [j \in 1..1 |-> Integrand(o, f_mg[k][j], x, m)]]

\* the rounded abundances of the mesh f_mg whose rounding error the
\* integrand of cross section x observes: a prior or a fit window ends at
\* their exponent
Observable(f_mg, x) ==
    LET edges == {p_f.lo, p_f.hi, fit[x].lo, fit[x].hi}
        seen == {c \in (1..Len(f_mg)) \X (1..Width(f_mg)) :
                    /\ f_mg[c[1]][c[2]].e \in edges
                    /\ f_mg[c[1]][c[2]].id # Exact}
    IN {f_mg[c[1]][c[2]] : c \in seen}

\* signs of a rounding error
Signs == {-1, 0, 1}

\* rnd after an integrand pass of cross section x over the mesh f_mg: the
\* errors seen before stay, each new one is any sign
Observed(f_mg, x) ==
    LET new == Observable(f_mg, x) \ DOMAIN rnd
    IN {rnd @@ d : d \in [new -> Signs]}

\* no rounding error observed yet
NoneObserved == [f \in {} |-> 0]

\* ---------------------------------------------------------------- trapz
\* sum of w[k] over the indices k in S
RECURSIVE SumOver(_, _)
SumOver(S, w) ==
    IF S = {} THEN 0
    ELSE LET k == CHOOSE i \in S : TRUE IN w[k] + SumOver(S \ {k}, w)

\* trapz(y, x) for one column.  With abundances f0 * r^u the integral is a
\* polynomial in r; the result is twice the integral divided by f0, as the
\* set of <<exponent, coefficient>> pairs with a non-zero coefficient.
\* Term k of the rule is (x[k+1] - x[k]) * (y[k+1] + y[k]) / 2.
\* Summed by parts, point k carries the weight term[k-1] - term[k].
Trapz2(y, x) ==
    LET n == Len(x)
        term == [k \in 0..n |-> IF k = 0 \/ k = n THEN 0 ELSE y[k + 1] + y[k]]
        wt == [k \in 1..n |-> term[k - 1] - term[k]]
        live == {k \in 1..n : wt[k] # 0}
        exps == {x[k] : k \in live}
        coef(e) == SumOver({k \in live : x[k] = e}, wt)
    IN {p \in {<<e, coef(e)>> : e \in exps} : p[2] # 0}

\* ------------------------------------------------------------ input sets
RECURSIVE Factorial(_)
Factorial(n) == IF n <= 1 THEN 1 ELSE n * Factorial(n - 1)

\* spacing of the exponent ladder: divisible by n - 1 for every point count
LadderStep == Factorial(MaxCount - 1)

\* strictly increasing grids of N given floats: evenly spaced, and with a
\* wider first gap
GridsOf(N) ==
    {[i \in 1..N |-> Given(LadderStep * (i - 1))],
     [i \in 1..N |-> Given(LadderStep * (IF i = 1 THEN 0 ELSE i))]}

\* (n_low, n_high) given to the resampler
Counts == {<<2, MaxCount>>, <<MaxCount, 2>>}

\* frac = 0.5 and frac = 0.75
Fracs == {[mant |-> 5, exp10 |-> 1], [mant |-> 75, exp10 |-> 2]}

\* columns of a resampler input matrix: the first is any column over
\* 0..MaxVal, the second a step between 0 and MaxVal, down or up (flat
\* columns included)
Cols == 1..2

StepColumns(N) ==
    {[i \in 1..N |-> IF i <= c THEN MaxVal ELSE 0] : c \in 0..N}
    \cup {[i \in 1..N |-> IF i <= c THEN 0 ELSE MaxVal] : c \in 0..N}

SVs == {1, 2}

\* the sv arrays given to _get_posterior_val: a scalar and a vector
SvArrays == {<<1>>, <<2, 1>>}
MDMs == {100}

PriorSvTables == [SVs -> {0, 1}]

\* the priors of the calls of _get_posterior_val: cross section 1 excluded
\* or not
PostSvTables == {t \in PriorSvTables : t[2] = 1}

PriorFs ==
    {[lo |-> F_MIN, hi |-> F_MAX, val |-> 1],
     [lo |-> 100, hi |-> CoarseStep - 100, val |-> 2],
     [lo |-> 3 * CoarseStep, hi |-> 9 * CoarseStep, val |-> 1],
     [lo |-> 15 * CoarseStep + 1, hi |-> F_MAX, val |-> 2],
     [lo |-> F_MIN - CoarseStep, hi |-> F_MAX + CoarseStep, val |-> 1]}

FitShapes ==
    <<[lo |-> F_MIN - CoarseStep, hi |-> F_MAX + CoarseStep, off |-> <<0, 0>>],
      [lo |-> 5 * CoarseStep - 100, hi |-> 7 * CoarseStep + 100,
       off |-> <<2, -2>>],
      [lo |-> F_MIN - CoarseStep, hi |-> 2 * CoarseStep + 100, off |-> <<2, 0>>]>>

\* the cross sections have different fits
FitTables ==
    {[x \in SVs |-> FitShapes[((x + c) % Len(FitShapes)) + 1]]
        : c \in 1..Len(FitShapes)}

\* abundances given to integrand: given floats and a rounded one
ProbeFs ==
    {Given(F_MIN), Given(931), Given(6 * CoarseStep), Given(F_MAX),
     PowLog(Given(F_MIN))}

Idle == <<>>

NoRet == [f_peak |-> <<>>, f_low |-> <<>>, idx_high |-> <<>>,
          f_high |-> <<>>, grid |-> <<>>]

\* ------------------------------------------- Spec: _get_trapz_f_samples
ResIdle ==
    /\ fs = Idle /\ integrand_vals = Idle /\ frac = Idle /\ n_low = 0
    /\ n_high = 0 /\ pc = "idle" /\ ret = NoRet

ExtIdle == p_sv = Idle /\ p_f = Idle /\ fit = Idle

IntIdle == arg_f = 0 /\ arg_sv = 0 /\ ipc = "idle" /\ ival = Idle

PostIdle ==
    /\ sv = Idle /\ m_dm = 0 /\ hpc = "idle" /\ probe = FALSE /\ elem = 0
    /\ h_fs = Idle /\ h_vals = Idle /\ h_ret = NoRet /\ passes = <<>>
    /\ trapz_calls = 0 /\ out = <<>>

Init ==
    /\ \E N \in 2..MaxN :
          /\ fs \in GridsOf(N)
          /\ \E c1 \in [1..N -> 0..MaxVal], c2 \in StepColumns(N) :
                integrand_vals = [i \in 1..N |-> <<c1[i], c2[i]>>]
    /\ frac \in Fracs
    /\ \E c \in Counts : n_low = c[1] /\ n_high = c[2]
    /\ pc = "call"
    /\ ret = NoRet
    /\ exact_ends \in BOOLEAN
    /\ rnd = NoneObserved
    /\ ExtIdle /\ IntIdle /\ PostIdle

\* one call of _get_trapz_f_samples on the drawn arguments
GetTrapzFSamples ==
    /\ pc = "call"
    /\ ret' = get_trapz_f_samples(fs, integrand_vals, frac, n_low, n_high)
    /\ pc' = "done"
    /\ UNCHANGED <<fs, integrand_vals, frac, n_low, n_high>>
    /\ UNCHANGED <<extVars, intVars, postVars, rnd, exact_ends>>

Next == GetTrapzFSamples

Spec == Init /\ [][Next]_vars

\* ------------------------------------------------ SpecIntegrand: integrand
ExtInit ==
    /\ p_sv \in PriorSvTables
    /\ p_f \in PriorFs
    /\ fit \in FitTables

InitIntegrand ==
    /\ ExtInit
    /\ arg_f \in ProbeFs
    /\ arg_sv \in SVs
    /\ m_dm \in MDMs
    /\ ipc = "call"
    /\ ival = Idle
    /\ exact_ends \in BOOLEAN
    /\ rnd = NoneObserved
    /\ ResIdle
    /\ sv = Idle /\ hpc = "idle" /\ probe = FALSE /\ elem = 0
    /\ h_fs = Idle /\ h_vals = Idle /\ h_ret = NoRet /\ passes = <<>>
    /\ trapz_calls = 0 /\ out = <<>>

\* one call of integrand(f, sv, m_dm) on scalars
EvalIntegrand ==
    /\ ipc = "call"
    /\ UNCHANGED <<arg_f, arg_sv>>
    /\ UNCHANGED <<resVars, extVars, postVars, exact_ends>>
    /\ rnd' \in Observed(<<<<arg_f>>>>, arg_sv)
    /\ ival' = IntegrandOutcome(rnd', arg_f, arg_sv, m_dm)
    /\ ipc' = "done"

NextIntegrand == EvalIntegrand

SpecIntegrand == InitIntegrand /\ [][NextIntegrand]_vars

\* ------------------------------------------- SpecPost: _get_posterior_val
\* np.vectorize(helper)(sv, m_dm) without otypes first calls helper on the
\* first element to find the output type (cache=False: the result is thrown
\* away), then calls helper once per element.
InitPost ==
    /\ p_sv \in PostSvTables
    /\ p_f \in PriorFs
    /\ fit \in FitTables
    /\ sv \in SvArrays
    /\ m_dm \in MDMs
    /\ hpc = "coarse"
    /\ probe = TRUE
    /\ elem = 0
    /\ h_fs = Idle /\ h_vals = Idle /\ h_ret = NoRet
    /\ passes = <<>>
    /\ trapz_calls = 0
    /\ out = <<>>
    /\ exact_ends \in BOOLEAN
    /\ rnd = NoneObserved
    /\ ResIdle /\ IntIdle

\* the scalar np.vectorize hands to helper
CurSv == PyIndex(sv, elem)

\* fs = np.geomspace(self.f_min, self.f_max, 20)
CoarseGrid == GeomSpace(Given(F_MIN), Given(F_MAX), N_COARSE)

\* helper: fs = np.geomspace(f_min, f_max, 20); meshgrid; first integrand pass
HelperCoarse ==
    /\ hpc = "coarse"
    /\ UNCHANGED <<sv, m_dm, probe, elem, h_ret, trapz_calls, out>>
    /\ UNCHANGED <<resVars, extVars, intVars, exact_ends>>
    /\ h_fs' = CoarseGrid
    /\ rnd' \in Observed([k \in 1..N_COARSE |-> <<CoarseGrid[k]>>], CurSv)
    /\ h_vals' = IntegrandMesh(rnd', [k \in 1..N_COARSE |-> <<CoarseGrid[k]>>],
                               CurSv, m_dm)
    /\ passes' = Append(passes, N_COARSE)
    /\ hpc' = "resample"

\* helper: f_mg = self._get_trapz_f_samples(fs, integrand_vals, n_low=50, n_high=150)
HelperResample ==
    /\ hpc = "resample"
    /\ h_ret' = get_trapz_f_samples(h_fs, h_vals, DefaultFrac, N_LOW, N_HIGH)
    /\ hpc' = "refined"
    /\ UNCHANGED <<sv, m_dm, probe, elem, h_fs, h_vals, passes, trapz_calls, out>>
    /\ UNCHANGED <<resVars, extVars, intVars, rnd, exact_ends>>

\* helper: second integrand pass, on the refined grid
HelperRefined ==
    /\ hpc = "refined"
    /\ UNCHANGED <<sv, m_dm, probe, elem, h_fs, h_ret, trapz_calls, out>>
    /\ UNCHANGED <<resVars, extVars, intVars, exact_ends>>
    /\ rnd' \in Observed(h_ret.grid, CurSv)
    /\ h_vals' = IntegrandMesh(rnd', h_ret.grid, CurSv, m_dm)
    /\ passes' = Append(passes, Len(h_ret.grid))
    /\ hpc' = "trapz"

\* helper: integral_vals = trapz(integrand_vals, f_mg, axis=0); return.  The
\* probing call's result is dropped; the others fill the output array.
HelperTrapz ==
    /\ hpc = "trapz"
    /\ trapz_calls' = trapz_calls + 1
    /\ IF probe
       THEN /\ probe' = FALSE
            /\ UNCHANGED <<elem, out>>
            /\ hpc' = "coarse"
       ELSE /\ out' = Append(out, Trapz2(Column(h_vals, 1), Column(h_ret.grid, 1)))
            /\ elem' = elem + 1
            /\ hpc' = IF elem + 1 < Len(sv) THEN "coarse" ELSE "done"
            /\ UNCHANGED probe
    /\ UNCHANGED <<sv, m_dm, h_fs, h_vals, h_ret, passes>>
    /\ UNCHANGED <<resVars, extVars, intVars, rnd, exact_ends>>

NextPost == HelperCoarse \/ HelperResample \/ HelperRefined \/ HelperTrapz

SpecPost == InitPost /\ [][NextPost]_vars

\* ====================================================== properties
\* ---- vocabulary of the resampler properties (all on Python indices)
ResDone == pc = "done"

LastIdx == Len(fs) - 1

ValAt(j, i) == integrand_vals[i + 1][j]

ColMax(j) == CHOOSE m \in {ValAt(j, i) : i \in 0..LastIdx} :
                 \A i \in 0..LastIdx : ValAt(j, i) <= m

RECURSIVE Pow10(_)
Pow10(e) == IF e = 0 THEN 1 ELSE 10 * Pow10(e - 1)

\* the column value at grid index i exceeds / equals frac * max(column)
Exceeds(j, i) == ValAt(j, i) * Pow10(frac.exp10) > frac.mant * ColMax(j)
AtThr(j, i) == ValAt(j, i) * Pow10(frac.exp10) = frac.mant * ColMax(j)

\* position of a value relative to the threshold: -1 below, 0 at, 1 above
Side(j, i) == IF Exceeds(j, i) THEN 1 ELSE IF AtThr(j, i) THEN 0 ELSE -1

\* the sides of a whole column, by grid index
Sides(j) ==
    LET mx == ColMax(j)
        p == Pow10(frac.exp10)
    IN [i \in 0..LastIdx |->
           IF ValAt(j, i) * p > frac.mant * mx THEN 1
           ELSE IF ValAt(j, i) * p = frac.mant * mx THEN 0 ELSE -1]

\* adjacent pairs (i, i+1) across which the column steps up / down
UpPairs(j) ==
    LET sd == Sides(j) IN {i \in 0..(LastIdx - 1) : sd[i] < sd[i + 1]}
DownPairs(j) ==
    LET sd == Sides(j) IN {i \in 0..(LastIdx - 1) : sd[i] > sd[i + 1]}

MinOf(S) == CHOOSE x \in S : \A y \in S : x <= y
MaxOf(S) == CHOOSE x \in S : \A y \in S : y <= x

FsAt(i) == fs[i + 1]

\* C1: for every column, the bounds of _get_trapz_f_samples satisfy
\* f_low <= f_peak <= f_high.
C1_BoundsOrdered ==
    ResDone => \A j \in Cols :
        ret.f_low[j].e <= ret.f_peak[j].e /\ ret.f_peak[j].e <= ret.f_high[j].e

\* C2: for every column, the refined grid is non-decreasing along the
\* abundance axis, every point lies between the smallest and the largest of
\* f_low, f_peak, f_high, and that interval is inside [fs[0], fs[last]].
\* Abundances are compared by their ladder exponents, so floats that differ
\* by rounding only count as ordered either way.
C2_GridMonotoneInRange ==
    ResDone => \A j \in Cols :
        LET g == Column(ret.grid, j)
            lo == MinOf({ret.f_low[j].e, ret.f_peak[j].e, ret.f_high[j].e})
            hi == MaxOf({ret.f_low[j].e, ret.f_peak[j].e, ret.f_high[j].e})
        IN /\ \A k \in 1..(Len(g) - 1) : g[k].e <= g[k + 1].e
           /\ \A k \in 1..Len(g) : lo <= g[k].e /\ g[k].e <= hi
           /\ FsAt(0).e <= lo /\ hi <= FsAt(LastIdx).e

\* the one-column matrix holding column j of integrand_vals
OnlyColumn(j) == [i \in 1..Len(integrand_vals) |-> <<integrand_vals[i][j]>>]

\* the bounds and the refined grid of column j of a two-column call equal
\* those of the call on column j alone, float for float
ResamplerColumnsIndependent ==
    ResDone =>
        \A j \in Cols :
            get_trapz_f_samples(fs, OnlyColumn(j), frac, n_low, n_high)
            = [f_peak |-> <<ret.f_peak[j]>>, f_low |-> <<ret.f_low[j]>>,
               idx_high |-> <<ret.idx_high[j]>>, f_high |-> <<ret.f_high[j]>>,
               grid |-> [k \in 1..Len(ret.grid) |-> <<ret.grid[k][j]>>]]

\* the bounds alone of column j of a two-column call equal those of the
\* call on column j alone
ResamplerBoundsIndependent ==
    ResDone =>
        \A j \in Cols :
            LET one == get_trapz_f_samples(fs, OnlyColumn(j), frac, n_low, n_high)
            IN /\ one.f_peak = <<ret.f_peak[j]>>
               /\ one.f_low = <<ret.f_low[j]>>
               /\ one.idx_high = <<ret.idx_high[j]>>
               /\ one.f_high = <<ret.f_high[j]>>

\* _get_posterior_val(x, m_dm) for one cross section x: the helper run on
\* its own
PosteriorOfOne(x) ==
    LET coarse == IntegrandMesh(rnd, [k \in 1..N_COARSE |-> <<CoarseGrid[k]>>],
                                x, m_dm)
        f_mg == get_trapz_f_samples(CoarseGrid, coarse, DefaultFrac,
                                    N_LOW, N_HIGH).grid
        refined == IntegrandMesh(rnd, f_mg, x, m_dm)
    IN Trapz2(Column(refined, 1), Column(f_mg, 1))

\* posterior_value([a, b], m) == [posterior_value(a, m), posterior_value(b, m)]
PosteriorElementwise ==
    hpc = "done" => \A i \in 1..Len(out) : out[i] = PosteriorOfOne(sv[i])

C7_FHighFromHighEnd ==
    ResDone => \A j \in Cols :
        IF DownPairs(j) = {} THEN ret.f_high[j] = FsAt(LastIdx)
        ELSE LET i == MaxOf(DownPairs(j))
             IN /\ ret.f_high[j] \in {FsAt(i), FsAt(i + 1)}
                /\ ret.f_high[j].e >= ret.f_peak[j].e

\* C8 as stated: f_low is the first grid point, scanning from the low end,
\* at which the column value exceeds the threshold (the first grid point
\* when the column starts above the threshold and never crosses upward).
C8_FLowFirstExceeding ==
    ResDone => \A j \in Cols :
        LET above == {i \in 0..LastIdx : Exceeds(j, i)}
        IN above # {} => ret.f_low[j] = FsAt(MinOf(above))

\* C8 amended: f_low is the lower grid point of the first pair, scanning
\* from the low end, across which the column steps up over the threshold, so
\* the value at f_low does not exceed the threshold; with no such pair f_low
\* is the first grid point.
C8_FLowBeforeFirstUp ==
    ResDone => \A j \in Cols :
        LET up == UpPairs(j)
        IN IF up = {} THEN ret.f_low[j] = FsAt(0)
           ELSE LET i == MinOf(up)
                IN /\ ret.f_low[j] = FsAt(i)
                   /\ ~Exceeds(j, i)

\* C8 witness: a column that starts below the threshold and first exceeds it
\* at a grid index past 1, so f_low is the point before.
C8_Witness ==
    /\ ResDone
    /\ \E j \in Cols :
          /\ UpPairs(j) # {}
          /\ MinOf(UpPairs(j)) >= 1
          /\ Exceeds(j, MinOf(UpPairs(j)) + 1)
          /\ ret.f_low[j] = FsAt(MinOf(UpPairs(j)))

\* C10: a downward crossing between the first two grid points and no
\* downward crossing at all both give idx_high = -1 and f_high = the last
\* grid point; f_high is never fs[0].
C10_FirstPairCrossingLost ==
    ResDone => \A j \in Cols :
        /\ (LET dp == DownPairs(j) IN dp = {} \/ 0 \in dp) =>
               ret.idx_high[j] = -1 /\ ret.f_high[j] = FsAt(LastIdx)
        /\ ret.idx_high[j] # 0
        /\ ret.f_high[j] # FsAt(0)

\* C10 witness: one column crosses downward between fs[0] and fs[1], the
\* other never crosses downward, and both got the last grid point.
C10_Witness ==
    /\ ResDone
    /\ 0 \in DownPairs(1)
    /\ DownPairs(2) = {}
    /\ ret.f_high[1] = FsAt(LastIdx)
    /\ ret.f_high[2] = FsAt(LastIdx)

\* ---- vocabulary of the integrand and posterior properties
\* the coarse-grid integrand column of cross section x is identically zero
CoarseZero(x) ==
    \A k \in 1..N_COARSE : Integrand(rnd, CoarseGrid[k], x, m_dm) = 0

\* the first and the last point of the coarse grid
CoarseFirst == EndPoint(Given(F_MIN))
CoarseLast == EndPoint(Given(F_MAX))

\* the integrand of cross section x vanishes on the refined grid of a zero
\* column: n_low points from the first coarse point to itself, and n_high
\* points from the first coarse point to the last
SpanZero(x) ==
    /\ \A k \in 1..N_LOW :
           Integrand(rnd, GeomPoint(CoarseFirst, CoarseFirst, N_LOW, k, TRUE),
                     x, m_dm) = 0
    /\ \A k \in 1..N_HIGH :
           Integrand(rnd, GeomPoint(CoarseFirst, CoarseLast, N_HIGH, k, FALSE),
                     x, m_dm) = 0

\* uniform positive priors and a perfect fit: the integrand of cross section
\* x is one positive constant over [f_min, f_max] and around its ends
ConstantCase(x) ==
    /\ p_f.lo < F_MIN /\ p_f.hi > F_MAX /\ p_f.val > 0
    /\ p_sv[x] > 0
    /\ fit[x].off = <<0, 0>>

HelperResampled == hpc \in {"refined", "trapz"}

\* C5: when a prior density is 0 the integrand is the value 0, not an error.
C5_ZeroPriorGivesZero ==
    (ipc = "done" /\ (P_f(rnd, arg_f) = 0 \/ P_sv(arg_sv) = 0)) =>
        ival = [tag |-> "value", v |-> 0]

\* C5 witness: a finished evaluation with a zero abundance prior, a positive
\* cross-section prior and a non-zero residual.
C5_Witness ==
    /\ ipc = "done"
    /\ P_f(rnd, arg_f) = 0
    /\ P_sv(arg_sv) > 0
    /\ PhiOverErr(rnd, arg_f, arg_sv, m_dm) # <<0, 0>>
    /\ ival.v = 0

\* C3 as stated: an identically-zero coarse column gives
\* f_low = f_high = f_peak, and the integral of that column is exactly 0.
C3_ZeroColumnCollapses ==
    /\ (HelperResampled /\ CoarseZero(CurSv)) =>
           /\ h_ret.f_low[1] = h_ret.f_peak[1]
           /\ h_ret.f_high[1] = h_ret.f_peak[1]
    /\ \A i \in 1..Len(out) : CoarseZero(sv[i]) => out[i] = {}

\* C3 amended: an identically-zero coarse column gives f_low = f_peak = the
\* first coarse point and f_high = the last coarse point; the refined grid
\* is n_low points within rounding of f_min followed by n_high increasing
\* points from f_min to f_max, where the end points of both halves are the
\* floats f_min and f_max themselves on a build whose np.geomspace sets its
\* end points, and within rounding of them otherwise; the integral of that
\* column is exactly 0 when the integrand is also zero at every refined
\* point.
C3_ZeroColumnSpansRange ==
    /\ (HelperResampled /\ CoarseZero(CurSv)) =>
           LET g == Column(h_ret.grid, 1)
           IN /\ h_ret.f_low[1] = h_fs[1]
              /\ h_ret.f_peak[1] = h_fs[1]
              /\ h_ret.f_high[1] = h_fs[N_COARSE]
              /\ h_fs[1].e = F_MIN /\ h_fs[N_COARSE].e = F_MAX
              /\ \A k \in 1..N_LOW : g[k].e = F_MIN
              /\ g[N_LOW + 1].e = F_MIN /\ g[N_LOW + N_HIGH].e = F_MAX
              /\ \A k \in (N_LOW + 1)..(N_LOW + N_HIGH - 1) :
                     g[k].e < g[k + 1].e
              /\ exact_ends =>
                     /\ g[1] = Given(F_MIN) /\ g[N_LOW] = Given(F_MIN)
                     /\ g[N_LOW + 1] = Given(F_MIN)
                     /\ g[N_LOW + N_HIGH] = Given(F_MAX)
    /\ \A i \in 1..Len(out) :
           (CoarseZero(sv[i]) /\ SpanZero(sv[i])) => out[i] = {}

\* C3 witness: a finished call in which a zero coarse column was integrated
\* to exactly 0.
C3_Witness ==
    /\ hpc = "done"
    /\ \E i \in 1..Len(out) :
          CoarseZero(sv[i]) /\ SpanZero(sv[i]) /\ out[i] = {}

RefinedFirst == EndPoint(CoarseFirst)
RefinedLast == EndPoint(CoarseLast)

C9_TwoPassesPerCall ==
    (hpc = "done" /\ Len(sv) = 1) =>
        passes = <<N_COARSE, N_LOW + N_HIGH>> /\ trapz_calls = 1

\* C9 amended: every run of helper makes exactly two integrand passes in
\* order (20-point coarse grid, then 200-point refined grid) followed by one
\* trapezoid integration, whatever the integrand values; a call of
\* _get_posterior_val runs helper once per element plus once more on the
\* first element (np.vectorize probing the output type).
C9_TwoPassesPerHelper ==
    /\ \A i \in 1..Len(passes) :
           passes[i] = IF i % 2 = 1 THEN N_COARSE ELSE N_LOW + N_HIGH
    /\ Len(passes) = 2 * trapz_calls +
           (CASE hpc = "resample" -> 1 [] hpc = "refined" -> 1
              [] hpc = "trapz" -> 2 [] OTHER -> 0)
    /\ hpc = "done" =>
           /\ trapz_calls = Len(sv) + 1
           /\ Len(out) = Len(sv)

\* C9 witness: a finished call for one pair, after four passes.
C9_Witness ==
    /\ hpc = "done"
    /\ Len(sv) = 1
    /\ passes = <<N_COARSE, N_LOW + N_HIGH, N_COARSE, N_LOW + N_HIGH>>
    /\ trapz_calls = 2

====
